---------------------------- MODULE Spec2Model ----------------------------
(***************************************************************************)
(* Colour/style resolution of eza (src/theme/mod.rs) and the choice of     *)
(* the source of file names (src/options/stdin.rs).                        *)
(*                                                                         *)
(* A definition string (LS_COLORS, EZA_COLORS) is modelled as the sequence *)
(* of its ':'-separated tokens; a token is the sequence of its             *)
(* '='-separated fields; a key field is a sequence of characters and a     *)
(* value field is the sequence of its ';'-separated numeric codes.         *)
(***************************************************************************)
EXTENDS Integers, Sequences, FiniteSets, TLC

VARIABLES
    use_colours,    \* Options.use_colours
    definitions,    \* Options.definitions: [ls, exa], each an Option<String>
    pc,             \* "options": Options built; "themed": to_theme returned
    isatty,         \* the argument of the to_theme call
    ret,            \* what parse_color_vars returned, and whether it ran
    theme,          \* the Theme to_theme returned: [ui, exts]
    lookup,         \* the last per-file lookup and its results
    overlaid,       \* the last overlaid style asked of the Theme
    stdin,          \* what FilesInput::deduce reads: terminal, flags, vars
    files_input     \* what FilesInput::deduce returned

vars == <<use_colours, definitions, pc, isatty, ret, theme, lookup, overlaid,
          stdin, files_input>>

\* ------------------------------------------------------------------ bounds

\* Largest number of ':'-separated tokens over the two definition strings.
MaxPairs == 3

\* Largest number of ';'-separated codes in a value of the overlay inputs.
MaxCodes == 2

\* Largest number of flags on the command line.
MaxFlags == 2

\* ------------------------------------------------------------------ styles

NoColour == <<"None">>

\* ansiterm::Style::default()
DefaultStyle ==
    [foreground |-> NoColour, background |-> NoColour,
     is_bold |-> FALSE, is_dimmed |-> FALSE, is_italic |-> FALSE,
     is_underline |-> FALSE, is_blink |-> FALSE, is_reverse |-> FALSE,
     is_hidden |-> FALSE, is_strikethrough |-> FALSE]

Fg(c) == [DefaultStyle EXCEPT !.foreground = <<c>>]
Bold(s) == [s EXCEPT !.is_bold = TRUE]
Underline(s) == [s EXCEPT !.is_underline = TRUE]

AnsiColour(n) ==
    CASE n = 0 -> <<"Black">>  [] n = 1 -> <<"Red">>    [] n = 2 -> <<"Green">>
      [] n = 3 -> <<"Yellow">> [] n = 4 -> <<"Blue">>   [] n = 5 -> <<"Purple">>
      [] n = 6 -> <<"Cyan">>   [] n = 7 -> <<"White">>

BrightColour(n) ==
    CASE n = 0 -> <<"DarkGray">>     [] n = 1 -> <<"BrightRed">>
      [] n = 2 -> <<"BrightGreen">>  [] n = 3 -> <<"BrightYellow">>
      [] n = 4 -> <<"BrightBlue">>   [] n = 5 -> <<"BrightPurple">>
      [] n = 6 -> <<"BrightCyan">>   [] n = 7 -> <<"BrightGray">>

\* The colour an extended code (38 or 48) reads from the codes that follow
\* it, and how many of them it consumes: 5;N or 2;R;G;B.
HighColour(codes, i) ==
    IF i + 1 <= Len(codes) /\ codes[i] = 5
        THEN [some |-> TRUE, colour |-> <<"Fixed", codes[i + 1]>>, used |-> 2]
    ELSE IF i + 3 <= Len(codes) /\ codes[i] = 2
        THEN [some |-> TRUE,
              colour |-> <<"RGB", codes[i + 1], codes[i + 2], codes[i + 3]>>,
              used |-> 4]
    ELSE IF i <= Len(codes) /\ codes[i] \in {2, 5}
        THEN [some |-> FALSE, colour |-> NoColour, used |-> Len(codes) - i + 1]
    ELSE [some |-> FALSE, colour |-> NoColour,
          used |-> IF i <= Len(codes) THEN 1 ELSE 0]

RECURSIVE StyleFrom(_, _, _)
StyleFrom(codes, i, style) ==
    IF i > Len(codes) THEN style
    ELSE LET n == codes[i] IN
        CASE n = 1 -> StyleFrom(codes, i + 1, [style EXCEPT !.is_bold = TRUE])
          [] n = 2 -> StyleFrom(codes, i + 1, [style EXCEPT !.is_dimmed = TRUE])
          [] n = 3 -> StyleFrom(codes, i + 1, [style EXCEPT !.is_italic = TRUE])
          [] n = 4 -> StyleFrom(codes, i + 1, [style EXCEPT !.is_underline = TRUE])
          [] n = 5 -> StyleFrom(codes, i + 1, [style EXCEPT !.is_blink = TRUE])
          [] n = 7 -> StyleFrom(codes, i + 1, [style EXCEPT !.is_reverse = TRUE])
          [] n = 8 -> StyleFrom(codes, i + 1, [style EXCEPT !.is_hidden = TRUE])
          [] n = 9 -> StyleFrom(codes, i + 1,
                                [style EXCEPT !.is_strikethrough = TRUE])
          [] n \in 30..37 ->
                StyleFrom(codes, i + 1,
                          [style EXCEPT !.foreground = AnsiColour(n - 30)])
          [] n \in 90..97 ->
                StyleFrom(codes, i + 1,
                          [style EXCEPT !.foreground = BrightColour(n - 90)])
          [] n \in 40..47 ->
                StyleFrom(codes, i + 1,
                          [style EXCEPT !.background = AnsiColour(n - 40)])
          [] n \in 100..107 ->
                StyleFrom(codes, i + 1,
                          [style EXCEPT !.background = BrightColour(n - 100)])
          [] n = 38 ->
                LET h == HighColour(codes, i + 1) IN
                StyleFrom(codes, i + 1 + h.used,
                          IF h.some THEN [style EXCEPT !.foreground = h.colour]
                          ELSE style)
          [] n = 48 ->
                LET h == HighColour(codes, i + 1) IN
                StyleFrom(codes, i + 1 + h.used,
                          IF h.some THEN [style EXCEPT !.background = h.colour]
                          ELSE style)
          [] OTHER -> StyleFrom(codes, i + 1, style)

\* Pair::to_style: the style a pair's value denotes.
to_style(pair) == StyleFrom(pair.value, 1, DefaultStyle)

Attributes ==
    {"is_bold", "is_dimmed", "is_italic", "is_underline", "is_blink",
     "is_reverse", "is_hidden", "is_strikethrough"}

\* An overlay whose attributes replace those of the base.
C11Mut_apply_overlay(base, overlay) ==
    [foreground |-> IF overlay.foreground # NoColour
                       THEN overlay.foreground ELSE base.foreground,
     background |-> IF overlay.background # NoColour
                       THEN overlay.background ELSE base.background,
     is_bold |-> overlay.is_bold, is_dimmed |-> overlay.is_dimmed,
     is_italic |-> overlay.is_italic, is_underline |-> overlay.is_underline,
     is_blink |-> overlay.is_blink, is_reverse |-> overlay.is_reverse,
     is_hidden |-> overlay.is_hidden,
     is_strikethrough |-> overlay.is_strikethrough]

\* An overlay that toggles the underline of the base.
C12Mut_apply_overlay(base, overlay) ==
    [foreground |-> IF overlay.foreground # NoColour
                       THEN overlay.foreground ELSE base.foreground,
     background |-> IF overlay.background # NoColour
                       THEN overlay.background ELSE base.background,
     is_bold |-> IF overlay.is_bold THEN TRUE ELSE base.is_bold,
     is_dimmed |-> IF overlay.is_dimmed THEN TRUE ELSE base.is_dimmed,
     is_italic |-> IF overlay.is_italic THEN TRUE ELSE base.is_italic,
     is_underline |-> IF overlay.is_underline THEN ~base.is_underline
                      ELSE base.is_underline,
     is_blink |-> IF overlay.is_blink THEN TRUE ELSE base.is_blink,
     is_reverse |-> IF overlay.is_reverse THEN TRUE ELSE base.is_reverse,
     is_hidden |-> IF overlay.is_hidden THEN TRUE ELSE base.is_hidden,
     is_strikethrough |-> IF overlay.is_strikethrough THEN TRUE
                          ELSE base.is_strikethrough]

\* apply_overlay(base, overlay)
apply_overlay(base, overlay) ==
    [foreground |-> IF overlay.foreground # NoColour
                       THEN overlay.foreground ELSE base.foreground,
     background |-> IF overlay.background # NoColour
                       THEN overlay.background ELSE base.background,
     is_bold |-> IF overlay.is_bold THEN TRUE ELSE base.is_bold,
     is_dimmed |-> IF overlay.is_dimmed THEN TRUE ELSE base.is_dimmed,
     is_italic |-> IF overlay.is_italic THEN TRUE ELSE base.is_italic,
     is_underline |-> IF overlay.is_underline THEN TRUE ELSE base.is_underline,
     is_blink |-> IF overlay.is_blink THEN TRUE ELSE base.is_blink,
     is_reverse |-> IF overlay.is_reverse THEN TRUE ELSE base.is_reverse,
     is_hidden |-> IF overlay.is_hidden THEN TRUE ELSE base.is_hidden,
     is_strikethrough |-> IF overlay.is_strikethrough THEN TRUE
                          ELSE base.is_strikethrough]

\* ------------------------------------------------------------- style table

LegacySlots ==
    {"filekinds.normal", "filekinds.directory", "filekinds.symlink",
     "filekinds.pipe", "filekinds.block_device", "filekinds.char_device",
     "filekinds.socket", "filekinds.executable", "broken_symlink"}

FileTypeSlots ==
    {"file_type.image", "file_type.video", "file_type.music",
     "file_type.lossless", "file_type.crypto", "file_type.document",
     "file_type.compressed", "file_type.temp", "file_type.compiled",
     "file_type.build", "file_type.source"}

SizeNumberSlots ==
    {"size.number_byte", "size.number_kilo", "size.number_mega",
     "size.number_giga", "size.number_huge"}

ExtendedSlots ==
    {"users.user_you", "users.user_other", "users.group_yours",
     "users.group_other", "date", "punctuation", "control_char",
     "broken_path_overlay", "filekinds.mount_point", "filekinds.special"}
    \cup SizeNumberSlots \cup FileTypeSlots

Slots == LegacySlots \cup ExtendedSlots

\* UiStyles::plain(): every slot the default style.
plain == [s \in Slots |-> DefaultStyle]

\* UiStyles::default_theme: the hard-coded defaults.
default_theme ==
    [s \in Slots |->
        CASE s = "filekinds.normal" -> DefaultStyle
          [] s = "filekinds.directory" -> Bold(Fg("Blue"))
          [] s = "filekinds.symlink" -> Fg("Cyan")
          [] s = "filekinds.pipe" -> Fg("Yellow")
          [] s = "filekinds.block_device" -> Bold(Fg("Yellow"))
          [] s = "filekinds.char_device" -> Bold(Fg("Yellow"))
          [] s = "filekinds.socket" -> Bold(Fg("Red"))
          [] s = "filekinds.executable" -> Bold(Fg("Green"))
          [] s = "filekinds.mount_point" -> Underline(Bold(Fg("Blue")))
          [] s = "filekinds.special" -> Fg("Yellow")
          [] s = "broken_symlink" -> Fg("Red")
          [] s = "broken_path_overlay" -> Underline(DefaultStyle)
          [] s = "users.user_you" -> Bold(Fg("Yellow"))
          [] s = "users.group_yours" -> Bold(Fg("Yellow"))
          [] s = "date" -> Fg("Blue")
          [] s = "punctuation" -> Fg("DarkGray")
          [] s = "control_char" -> Fg("Red")
          [] s = "size.number_byte" -> Bold(Fg("Green"))
          [] s = "size.number_kilo" -> Bold(Fg("Green"))
          [] s = "size.number_mega" -> Bold(Fg("Green"))
          [] s = "size.number_giga" -> Bold(Fg("Green"))
          [] s = "size.number_huge" -> Bold(Fg("Green"))
          [] s = "file_type.image" -> Fg("Purple")
          [] s = "file_type.video" -> Bold(Fg("Purple"))
          [] s = "file_type.music" -> Fg("Cyan")
          [] s = "file_type.lossless" -> Bold(Fg("Cyan"))
          [] s = "file_type.crypto" -> Bold(Fg("Green"))
          [] s = "file_type.document" -> Fg("Green")
          [] s = "file_type.compressed" -> Fg("Red")
          [] s = "file_type.temp" -> Fg("White")
          [] s = "file_type.compiled" -> Fg("Yellow")
          [] s = "file_type.build" -> Underline(Bold(Fg("Yellow")))
          [] s = "file_type.source" -> Bold(Fg("Yellow"))
          [] OTHER -> DefaultStyle]

\* The slot a legacy two-letter code names ("" when it names none).
LsSlot(key) ==
    CASE key = <<"f", "i">> -> "filekinds.normal"
      [] key = <<"d", "i">> -> "filekinds.directory"
      [] key = <<"l", "n">> -> "filekinds.symlink"
      [] key = <<"p", "i">> -> "filekinds.pipe"
      [] key = <<"b", "d">> -> "filekinds.block_device"
      [] key = <<"c", "d">> -> "filekinds.char_device"
      [] key = <<"s", "o">> -> "filekinds.socket"
      [] key = <<"e", "x">> -> "filekinds.executable"
      [] key = <<"o", "r">> -> "broken_symlink"
      [] OTHER -> ""

\* The slots an extended code names (none when it is no extended code): one
\* slot each, but for sn, which names the five size-number slots.
ExaSlots(key) ==
    CASE key = <<"u", "u">> -> {"users.user_you"}
      [] key = <<"u", "n">> -> {"users.user_other"}
      [] key = <<"g", "u">> -> {"users.group_yours"}
      [] key = <<"g", "n">> -> {"users.group_other"}
      [] key = <<"d", "a">> -> {"date"}
      [] key = <<"x", "x">> -> {"punctuation"}
      [] key = <<"c", "c">> -> {"control_char"}
      [] key = <<"b", "O">> -> {"broken_path_overlay"}
      [] key = <<"m", "p">> -> {"filekinds.mount_point"}
      [] key = <<"s", "p">> -> {"filekinds.special"}
      [] key = <<"i", "m">> -> {"file_type.image"}
      [] key = <<"v", "i">> -> {"file_type.video"}
      [] key = <<"m", "u">> -> {"file_type.music"}
      [] key = <<"l", "o">> -> {"file_type.lossless"}
      [] key = <<"c", "r">> -> {"file_type.crypto"}
      [] key = <<"d", "o">> -> {"file_type.document"}
      [] key = <<"c", "o">> -> {"file_type.compressed"}
      [] key = <<"t", "m">> -> {"file_type.temp"}
      [] key = <<"c", "m">> -> {"file_type.compiled"}
      [] key = <<"b", "u">> -> {"file_type.build"}
      [] key = <<"s", "c">> -> {"file_type.source"}
      [] key = <<"s", "n">> -> SizeNumberSlots
      [] key = <<"n", "b">> -> {"size.number_byte"}
      [] key = <<"n", "k">> -> {"size.number_kilo"}
      [] key = <<"n", "m">> -> {"size.number_mega"}
      [] key = <<"n", "g">> -> {"size.number_giga"}
      [] key = <<"n", "t">> -> {"size.number_huge"}
      [] OTHER -> {}

\* UiStyles::set_ls: overwrite the slot of a legacy code with the pair's
\* style; hit is the boolean the method returns.
set_ls(colours, pair) ==
    LET slot == LsSlot(pair.key) IN
    IF slot = "" THEN [hit |-> FALSE, ui |-> colours]
    ELSE [hit |-> TRUE, ui |-> [colours EXCEPT ![slot] = to_style(pair)]]

\* UiStyles::set_exa: the same for the extended code set.
set_exa(colours, pair) ==
    LET slots == ExaSlots(pair.key) IN
    IF slots = {} THEN [hit |-> FALSE, ui |-> colours]
    ELSE [hit |-> TRUE,
          ui |-> [s \in Slots |->
                     IF s \in slots THEN to_style(pair) ELSE colours[s]]]


\* ------------------------------------------------------------------- globs

\* glob::Pattern::new(key) is Ok: every '[' opens a class that a ']' at
\* least two characters later closes, and no run of three '*' occurs.
GlobCompiles(key) ==
    /\ \A i \in 1..Len(key) :
          key[i] = "[" => \E j \in (i + 2)..Len(key) : key[j] = "]"
    /\ \A i \in 1..(Len(key) - 2) :
          ~(key[i] = "*" /\ key[i + 1] = "*" /\ key[i + 2] = "*")

\* Index of the ']' closing the class opened at i.
ClassEnd(pat, i) ==
    CHOOSE j \in (i + 2)..Len(pat) :
        /\ pat[j] = "]"
        /\ \A k \in (i + 2)..(j - 1) : pat[k] # "]"

\* glob::Pattern::matches: '?' is any one character, '*' any run of
\* characters, [..] one character of the listed ones, anything else itself.
RECURSIVE MatchFrom(_, _, _, _)
MatchFrom(pat, i, name, j) ==
    IF i > Len(pat) THEN j > Len(name)
    ELSE IF pat[i] = "*"
        THEN \E k \in j..(Len(name) + 1) : MatchFrom(pat, i + 1, name, k)
    ELSE IF j > Len(name) THEN FALSE
    ELSE IF pat[i] = "?" THEN MatchFrom(pat, i + 1, name, j + 1)
    ELSE IF pat[i] = "["
        THEN LET e == ClassEnd(pat, i) IN
             /\ \E k \in (i + 1)..(e - 1) : pat[k] = name[j]
             /\ MatchFrom(pat, e + 1, name, j + 1)
    ELSE pat[i] = name[j] /\ MatchFrom(pat, i + 1, name, j + 1)

matches(pat, name) == MatchFrom(pat, 1, name, 1)

\* --------------------------------------------------------- parse_color_vars

None == [some |-> FALSE, str |-> <<>>]
Some(str) == [some |-> TRUE, str |-> str]

\* LSColors::each_pair: the tokens of the form key=value with neither side
\* empty, in order, as pairs; every other token is skipped.
IsPair(tok) == Len(tok) = 2 /\ tok[1] # <<>> /\ tok[2] # <<>>

RECURSIVE each_pair(_)
each_pair(str) ==
    IF str = <<>> THEN <<>>
    ELSE IF IsPair(Head(str))
        THEN <<[key |-> Head(str)[1], value |-> Head(str)[2]]>>
             \o each_pair(Tail(str))
    ELSE each_pair(Tail(str))

\* An add that keeps one entry per pattern: a pattern already present is not
\* added again.
C6Mut_add(mappings, pattern, style) ==
    IF \E i \in 1..Len(mappings) : mappings[i].pattern = pattern
        THEN mappings
    ELSE Append(mappings, [pattern |-> pattern, style |-> style])

\* ExtensionMappings::add
add(mappings, pattern, style) ==
    Append(mappings, [pattern |-> pattern, style |-> style])

\* A closure that lays the new style of a legacy code over the slot's old
\* one instead of replacing it.
C15Mut_LsPair(st, pair) ==
    LET slot == LsSlot(pair.key) IN
    IF slot # ""
        THEN [st EXCEPT
                 !.ui[slot] = apply_overlay(st.ui[slot], to_style(pair))]
    ELSE IF GlobCompiles(pair.key)
        THEN [st EXCEPT !.exts = add(st.exts, pair.key, to_style(pair))]
    ELSE st

\* A closure that tries the key as a glob even when set_ls took it.
C7Mut_LsPair(st, pair) ==
    LET r == set_ls(st.ui, pair) IN
    IF GlobCompiles(pair.key)
        THEN [ui |-> r.ui, exts |-> add(st.exts, pair.key, to_style(pair))]
    ELSE [st EXCEPT !.ui = r.ui]

\* A closure that consults the extended code set for the LS_COLORS string
\* too.
C8Mut_LsPair(st, pair) ==
    LET r == set_ls(st.ui, pair) IN
    IF r.hit THEN [st EXCEPT !.ui = r.ui]
    ELSE LET q == set_exa(r.ui, pair) IN
         IF q.hit THEN [st EXCEPT !.ui = q.ui]
         ELSE IF GlobCompiles(pair.key)
             THEN [st EXCEPT !.exts = add(st.exts, pair.key, to_style(pair))]
         ELSE st

\* The closure given to each_pair for the LS_COLORS string; st is the pair
\* of captured variables [ui, exts].
LsPair(st, pair) ==
    LET r == set_ls(st.ui, pair) IN
    IF r.hit THEN [st EXCEPT !.ui = r.ui]
    ELSE IF GlobCompiles(pair.key)
        THEN [st EXCEPT !.exts = add(st.exts, pair.key, to_style(pair))]
    ELSE st

\* A closure for the EZA_COLORS string that consults the extended code set
\* only.
C13Mut_ExaPair(st, pair) ==
    LET q == set_exa(st.ui, pair) IN
    IF q.hit THEN [st EXCEPT !.ui = q.ui]
    ELSE IF GlobCompiles(pair.key)
        THEN [st EXCEPT !.exts = add(st.exts, pair.key, to_style(pair))]
    ELSE st

\* The closure given to each_pair for the EZA_COLORS string.
ExaPair(st, pair) ==
    LET r == set_ls(st.ui, pair) IN
    IF r.hit THEN [st EXCEPT !.ui = r.ui]
    ELSE LET q == set_exa(r.ui, pair) IN
         IF q.hit THEN [st EXCEPT !.ui = q.ui]
         ELSE IF GlobCompiles(pair.key)
             THEN [st EXCEPT !.exts = add(st.exts, pair.key, to_style(pair))]
         ELSE st

\* An iteration over the pairs from the last to the first.
RECURSIVE C5Mut_EachLsPair(_, _)
C5Mut_EachLsPair(pairs, st) ==
    IF pairs = <<>> THEN st
    ELSE C5Mut_EachLsPair(SubSeq(pairs, 1, Len(pairs) - 1),
                          LsPair(st, pairs[Len(pairs)]))

\* An iteration that stops at the first key that is neither a code nor a
\* glob.
RECURSIVE C10Mut_EachLsPair(_, _)
C10Mut_EachLsPair(pairs, st) ==
    IF pairs = <<>> THEN st
    ELSE IF ~set_ls(st.ui, Head(pairs)).hit /\ ~GlobCompiles(Head(pairs).key)
        THEN st
    ELSE C10Mut_EachLsPair(Tail(pairs), LsPair(st, Head(pairs)))

RECURSIVE EachLsPair(_, _)
EachLsPair(pairs, st) ==
    IF pairs = <<>> THEN st
    ELSE EachLsPair(Tail(pairs), LsPair(st, Head(pairs)))

RECURSIVE EachExaPair(_, _)
EachExaPair(pairs, st) ==
    IF pairs = <<>> THEN st
    ELSE EachExaPair(Tail(pairs), ExaPair(st, Head(pairs)))

ResetToken == << <<"r", "e", "s", "e", "t">> >>

\* A test that finds reset anywhere in the string.
C9Mut_IsReset(exa) == \E i \in 1..Len(exa) : exa[i] = ResetToken

\* exa == "reset" || exa.starts_with("reset:")
IsReset(exa) ==
    \/ exa = <<ResetToken>>
    \/ Len(exa) > 1 /\ exa[1] = ResetToken

\* A parser that processes the EZA_COLORS string before the LS_COLORS string.
C4Mut_parse_color_vars(defs, colours) ==
    LET st0 == [ui |-> colours, exts |-> <<>>]
        st1 == IF defs.exa.some
                  THEN EachExaPair(each_pair(defs.exa.str), st0)
                  ELSE st0
        st2 == IF defs.ls.some
                  THEN EachLsPair(each_pair(defs.ls.str), st1)
                  ELSE st1
    IN  [exts |-> st2.exts,
         use_default_filetypes |-> ~(defs.exa.some /\ IsReset(defs.exa.str)),
         ui |-> st2.ui]

\* Definitions::parse_color_vars: the mappings and the flag it returns, and
\* the style table it leaves in colours.
parse_color_vars(defs, colours) ==
    LET st0 == [ui |-> colours, exts |-> <<>>]
        st1 == IF defs.ls.some
                  THEN EachLsPair(each_pair(defs.ls.str), st0)
                  ELSE st0
        st2 == IF defs.exa.some
                  THEN EachExaPair(each_pair(defs.exa.str), st1)
                  ELSE st1
    IN  [exts |-> st2.exts,
         use_default_filetypes |-> ~(defs.exa.some /\ IsReset(defs.exa.str)),
         ui |-> st2.ui]

\* ---------------------------------------------------------------- resolvers

NoStyle == [some |-> FALSE, style |-> DefaultStyle]
SomeStyle(s) == [some |-> TRUE, style |-> s]

\* impl FileStyle for NoFileStyle
NoFileStyle_get_style(file, th) == NoStyle

\* impl FileStyle for ExtensionMappings: the last entry whose pattern
\* matches the file's name.
RECURSIVE RFind(_, _, _)
RFind(mappings, i, name) ==
    IF i = 0 THEN NoStyle
    ELSE IF matches(mappings[i].pattern, name) THEN SomeStyle(mappings[i].style)
    ELSE RFind(mappings, i - 1, name)

\* A lookup that scans from the first entry: the earliest match wins.
RECURSIVE C3Mut_Find(_, _, _)
C3Mut_Find(mappings, i, name) ==
    IF i > Len(mappings) THEN NoStyle
    ELSE IF matches(mappings[i].pattern, name) THEN SomeStyle(mappings[i].style)
    ELSE C3Mut_Find(mappings, i + 1, name)

C3Mut_get_style(mappings, file, th) == C3Mut_Find(mappings, 1, file.name)

ExtensionMappings_get_style(mappings, file, th) ==
    RFind(mappings, Len(mappings), file.name)

\* impl FileStyle for FileTypes: the slot of the file's built-in category.
FileTypes_get_style(file, th) ==
    CASE file.file_type = "Image" -> SomeStyle(th.ui["file_type.image"])
      [] file.file_type = "Video" -> SomeStyle(th.ui["file_type.video"])
      [] file.file_type = "Music" -> SomeStyle(th.ui["file_type.music"])
      [] file.file_type = "Lossless" -> SomeStyle(th.ui["file_type.lossless"])
      [] file.file_type = "Crypto" -> SomeStyle(th.ui["file_type.crypto"])
      [] file.file_type = "Document" -> SomeStyle(th.ui["file_type.document"])
      [] file.file_type = "Compressed" ->
            SomeStyle(th.ui["file_type.compressed"])
      [] file.file_type = "Temp" -> SomeStyle(th.ui["file_type.temp"])
      [] file.file_type = "Compiled" -> SomeStyle(th.ui["file_type.compiled"])
      [] file.file_type = "Build" -> SomeStyle(th.ui["file_type.build"])
      [] file.file_type = "Source" -> SomeStyle(th.ui["file_type.source"])
      [] OTHER -> NoStyle

\* A pair that asks the classifier first and the mappings second.
C14Mut_Pair_get_style(mappings, file, th) ==
    LET b == FileTypes_get_style(file, th) IN
    IF b.some THEN b ELSE ExtensionMappings_get_style(mappings, file, th)

\* impl FileStyle for (A, B), at (ExtensionMappings, FileTypes).
Pair_get_style(mappings, file, th) ==
    LET a == ExtensionMappings_get_style(mappings, file, th) IN
    IF a.some THEN a ELSE FileTypes_get_style(file, th)

\* The Box<dyn FileStyle> call: dispatch on the boxed variant.
get_style(exts, file, th) ==
    CASE exts.kind = "NoFileStyle" -> NoFileStyle_get_style(file, th)
      [] exts.kind = "FileTypes" -> FileTypes_get_style(file, th)
      [] exts.kind = "ExtensionMappings" ->
            ExtensionMappings_get_style(exts.mappings, file, th)
      [] exts.kind = "Pair" -> Pair_get_style(exts.mappings, file, th)

\* A colour_file that falls back to the default style, not to the slot.
C17Mut_colour_file(th, file) ==
    LET s == get_style(th.exts, file, th) IN
    IF s.some THEN s.style ELSE DefaultStyle

\* FileNameColours::colour_file
colour_file(th, file) ==
    LET s == get_style(th.exts, file, th) IN
    IF s.some THEN s.style ELSE th.ui["filekinds.normal"]

\* ----------------------------------------------------------------- to_theme

Boxed(kind, mappings) == [kind |-> kind, mappings |-> mappings]

is_non_empty(mappings) == mappings # <<>>

\* A selection that drops the built-in classifier whenever there are
\* mappings.
C1Mut_SelectResolver(exts, use_default_filetypes) ==
    IF exts # <<>> THEN Boxed("ExtensionMappings", exts)
    ELSE IF use_default_filetypes THEN Boxed("FileTypes", <<>>)
    ELSE Boxed("NoFileStyle", <<>>)

\* The match of to_theme on (exts.is_non_empty(), use_default_filetypes).
SelectResolver(exts, use_default_filetypes) ==
    CASE ~is_non_empty(exts) /\ ~use_default_filetypes ->
            Boxed("NoFileStyle", <<>>)
      [] ~is_non_empty(exts) /\ use_default_filetypes ->
            Boxed("FileTypes", <<>>)
      [] is_non_empty(exts) /\ ~use_default_filetypes ->
            Boxed("ExtensionMappings", exts)
      [] is_non_empty(exts) /\ use_default_filetypes ->
            Boxed("Pair", exts)

NotRun == [ran |-> FALSE, exts |-> <<>>, use_default_filetypes |-> TRUE]

\* An early return that forgets the Automatic policy.
C2Mut_ColourDisabled(uc, tty) == uc = "Never"

\* The early-return condition of to_theme.
ColourDisabled(uc, tty) ==
    uc = "Never" \/ (uc = "Automatic" /\ ~tty)

\* Options::to_theme: the Theme it returns, with the record of the call of
\* parse_color_vars it made (or did not make).
to_theme(uc, defs, tty) ==
    IF ColourDisabled(uc, tty)
        THEN [theme |-> [ui |-> plain, exts |-> Boxed("NoFileStyle", <<>>)],
              ret |-> NotRun]
    ELSE LET r == parse_color_vars(defs, default_theme) IN
         [theme |-> [ui |-> r.ui,
                     exts |-> SelectResolver(r.exts, r.use_default_filetypes)],
          ret |-> [ran |-> TRUE, exts |-> r.exts,
                   use_default_filetypes |-> r.use_default_filetypes]]

\* ------------------------------------------------------------------- inputs

Tok(key, value) == <<key, value>>

\* The tokens the definition strings are made of: a legacy code with two
\* values, an extended-only code, two globs, a key that is no glob, and the
\* bare word reset.
Tokens ==
    {Tok(<<"d", "i">>, <<31>>), Tok(<<"d", "i">>, <<1, 44>>),
     Tok(<<"u", "u">>, <<32>>),
     Tok(<<"*", ".", "t">>, <<33>>), Tok(<<"a", "*">>, <<4>>),
     Tok(<<"[">>, <<35>>),
     ResetToken}

\* The one token of the empty string.
EmptyToken == << <<>> >>

RECURSIVE SeqsOf(_, _)
SeqsOf(S, n) ==
    IF n = 0 THEN {<<>>}
    ELSE {<<x>> \o s : x \in S, s \in SeqsOf(S, n - 1)}

\* Option<String> values holding exactly n tokens of Tokens; with n = 0, the
\* absent string and the empty string.
OptStrings(n) ==
    IF n = 0 THEN {None, Some(<<EmptyToken>>)}
    ELSE {Some(s) : s \in SeqsOf(Tokens, n)}

\* Definitions of at most MaxPairs tokens of Tokens over the two strings.
SeqDefinitions ==
    UNION {UNION {[ls : OptStrings(a), exa : OptStrings(b)] :
                     b \in 0..(MaxPairs - a)} : a \in 0..MaxPairs}

LegacyCodes ==
    {<<"f", "i">>, <<"d", "i">>, <<"l", "n">>, <<"p", "i">>, <<"b", "d">>,
     <<"c", "d">>, <<"s", "o">>, <<"e", "x">>, <<"o", "r">>}

ExtendedCodes ==
    {<<"u", "u">>, <<"u", "n">>, <<"g", "u">>, <<"g", "n">>, <<"d", "a">>,
     <<"x", "x">>, <<"c", "c">>, <<"b", "O">>, <<"m", "p">>, <<"s", "p">>,
     <<"i", "m">>, <<"v", "i">>, <<"m", "u">>, <<"l", "o">>, <<"c", "r">>,
     <<"d", "o">>, <<"c", "o">>, <<"t", "m">>, <<"c", "m">>, <<"b", "u">>,
     <<"s", "c">>, <<"s", "n">>, <<"n", "b">>, <<"n", "k">>, <<"n", "m">>,
     <<"n", "g">>, <<"n", "t">>}

CodeValues == {<<31>>, <<1, 44>>}

\* The strings that assign one code once or twice, and those that assign a
\* second code after it.
CodeStrings(k, k2) ==
    {<<Tok(k, v)>> : v \in CodeValues}
    \cup {<<Tok(k, p[1]), Tok(kk, p[2])>> :
              p \in {q \in CodeValues \X CodeValues : q[1] # q[2]},
              kk \in {k, k2}}

\* Definitions whose strings are absent or assign one code of either code
\* set; sn is paired with nb, the code of one of its slots, and nb with sn.
CodePartner(k) ==
    IF k = <<"s", "n">> THEN <<"n", "b">>
    ELSE IF k = <<"n", "b">> THEN <<"s", "n">>
    ELSE k

CodeDefinitions ==
    UNION {[ls : {None} \cup {Some(x) : x \in CodeStrings(k, CodePartner(k))},
            exa : {None} \cup {Some(x) : x \in CodeStrings(k, CodePartner(k))}] :
              k \in LegacyCodes \cup ExtendedCodes}

Definitions == SeqDefinitions \cup CodeDefinitions

File(name, file_type) == [name |-> name, file_type |-> file_type]

\* The files looked up: name and built-in category ("" when it has none).
Files ==
    {File(<<"a", ".", "t">>, ""), File(<<"b", ".", "t">>, "Source"),
     File(<<"u", "u">>, "")}

\* ------------------------------------------------------------- FilesInput

Ok(val) == [err |-> FALSE, val |-> val]
Err == [err |-> TRUE, val |-> FALSE]

\* MatchedFlags::has: whether the flag was given; in strict mode a flag
\* given twice or more is an error.
has(matched, arg) ==
    LET all == {i \in 1..Len(matched.flags) : matched.flags[i] = arg} IN
    IF matched.strict /\ Cardinality(all) >= 2 THEN Err
    ELSE Ok(all # {})

\* The three values of Result<FilesInput, OptionsError>, with the branch of
\* the if that gave the value and the number of flag lookups made.
Args(branch, calls) ==
    [done |-> TRUE, kind |-> "Args", separator |-> "", branch |-> branch,
     calls |-> calls]
Stdin(separator, branch, calls) ==
    [done |-> TRUE, kind |-> "Stdin", separator |-> separator,
     branch |-> branch, calls |-> calls]
Error(calls) ==
    [done |-> TRUE, kind |-> "Err", separator |-> "", branch |-> "",
     calls |-> calls]

\* vars.get(EZA_STDIN_SEPARATOR).unwrap_or(OsString::from("\n"))
Separator(var) == IF var.some THEN var.str ELSE "\n"

\* A deduce that looks the flag up before it asks whether standard input is
\* a terminal.
C18Mut_deduce(matched, var, is_terminal) ==
    LET h == has(matched, "stdin") IN
    IF h.err THEN Error(1)
    ELSE IF is_terminal \/ ~h.val THEN Args("if", 1)
    ELSE Stdin(Separator(var), "else if", 2)

\* FilesInput::deduce; || and && evaluate their right operand only when the
\* left one does not decide, and ? returns the error of the lookup.
deduce(matched, var, is_terminal) ==
    LET h == has(matched, "stdin") IN
    IF is_terminal THEN Args("if", 0)
    ELSE IF h.err THEN Error(1)
    ELSE IF ~h.val THEN Args("if", 1)
    ELSE IF h.err THEN Error(2)
    ELSE IF h.val /\ ~is_terminal THEN Stdin(Separator(var), "else if", 2)
    ELSE Args("else", 2)

NoStdin == [is_terminal |-> TRUE, matches |-> [flags |-> <<>>, strict |-> FALSE],
            var |-> None]
NoFilesInput ==
    [done |-> FALSE, kind |-> "", separator |-> "", branch |-> "", calls |-> 0]

\* The flags of a command line, and the command lines of at most MaxFlags.
FlagNames == {"stdin", "long"}
Matches ==
    [flags : UNION {SeqsOf(FlagNames, n) : n \in 0..MaxFlags},
     strict : BOOLEAN]

\* EZA_STDIN_SEPARATOR: unset, empty, or a comma.
SeparatorVars == {None, Some(""), Some(",")}

NoLookup == [done |-> FALSE, file |-> File(<<>>, ""), found |-> NoStyle,
             style |-> DefaultStyle]

NoTheme == [ui |-> plain, exts |-> Boxed("NoFileStyle", <<>>)]

NoOverlaid == [done |-> FALSE, of |-> "", base |-> DefaultStyle,
               overlay |-> DefaultStyle, style |-> DefaultStyle]

\* The codes the values of the overlay inputs are made of: the eight
\* attributes, two foreground colours and two background colours.
OverlayCodes == {1, 2, 3, 4, 5, 7, 8, 9, 31, 34, 41, 44}

\* The elements of a set of numbers in ascending order.
RECURSIVE Ascending(_)
Ascending(S) ==
    IF S = {} THEN <<>>
    ELSE LET m == CHOOSE x \in S : \A y \in S : x <= y
         IN  <<m>> \o Ascending(S \ {m})

\* The values of at most MaxCodes of these codes; the value 0 stands for
\* none of them.
OverlayValues ==
    {IF S = {} THEN <<0>> ELSE Ascending(S) :
        S \in {T \in SUBSET OverlayCodes : Cardinality(T) <= MaxCodes}}

\* EZA_COLORS strings that set the broken-symlink and control-character
\* styles and the broken-path overlay.
OverlayDefinitions ==
    {[ls |-> None,
      exa |-> Some(<<Tok(<<"o", "r">>, b), Tok(<<"c", "c">>, b),
                     Tok(<<"b", "O">>, o)>>)] :
        b \in OverlayValues, o \in OverlayValues}

\* ------------------------------------------------------------------ actions

Init ==
    /\ use_colours \in {"Always", "Automatic", "Never"}
    /\ definitions \in Definitions
    /\ pc = "options"
    /\ isatty = FALSE
    /\ ret = NotRun
    /\ theme = NoTheme
    /\ lookup = NoLookup
    /\ overlaid = NoOverlaid
    /\ stdin = NoStdin
    /\ files_input = NoFilesInput

\* Options::to_theme(isatty)
ToTheme ==
    /\ pc = "options"
    /\ \E tty \in BOOLEAN :
          LET r == to_theme(use_colours, definitions, tty) IN
          /\ isatty' = tty
          /\ theme' = r.theme
          /\ ret' = r.ret
    /\ pc' = "themed"
    /\ UNCHANGED <<use_colours, definitions, lookup, overlaid, stdin,
                   files_input>>

\* A lookup that moves the first mapping entry to the end of the sequence,
\* as a cache of recently used entries would.
C16Mut_ColourFile ==
    /\ pc = "themed"
    /\ \E f \in Files :
          /\ lookup' = [done |-> TRUE, file |-> f,
                        found |-> get_style(theme.exts, f, theme),
                        style |-> colour_file(theme, f)]
          /\ theme' = IF theme.exts.mappings = <<>> THEN theme
                      ELSE [theme EXCEPT !.exts.mappings =
                               Append(Tail(theme.exts.mappings),
                                      Head(theme.exts.mappings))]
    /\ UNCHANGED <<use_colours, definitions, pc, isatty, ret, overlaid, stdin,
                   files_input>>

\* Theme::colour_file(file), with the resolver result it is built from.
ColourFile ==
    /\ pc = "themed"
    /\ \E f \in Files :
          lookup' = [done |-> TRUE, file |-> f,
                     found |-> get_style(theme.exts, f, theme),
                     style |-> colour_file(theme, f)]
    /\ UNCHANGED <<use_colours, definitions, pc, isatty, ret, theme, overlaid,
                   stdin, files_input>>

Next == ToTheme \/ ColourFile

Spec == Init /\ [][Next]_vars

\* Theme::broken_filename and Theme::broken_control_char, on a Theme built
\* from definitions that set their three styles.
InitOverlay ==
    /\ use_colours = "Always"
    /\ definitions \in OverlayDefinitions
    /\ pc = "options"
    /\ isatty = FALSE
    /\ ret = NotRun
    /\ theme = NoTheme
    /\ lookup = NoLookup
    /\ overlaid = NoOverlaid
    /\ stdin = NoStdin
    /\ files_input = NoFilesInput

Overlaid(of, base, overlay) ==
    [done |-> TRUE, of |-> of, base |-> base, overlay |-> overlay,
     style |-> apply_overlay(base, overlay)]

\* FileNameColours::broken_filename
BrokenFilename ==
    /\ pc = "themed"
    /\ overlaid' = Overlaid("broken_filename", theme.ui["broken_symlink"],
                            theme.ui["broken_path_overlay"])
    /\ UNCHANGED <<use_colours, definitions, pc, isatty, ret, theme, lookup,
                   stdin, files_input>>

\* FileNameColours::broken_control_char
BrokenControlChar ==
    /\ pc = "themed"
    /\ overlaid' = Overlaid("broken_control_char", theme.ui["control_char"],
                            theme.ui["broken_path_overlay"])
    /\ UNCHANGED <<use_colours, definitions, pc, isatty, ret, theme, lookup,
                   stdin, files_input>>

NextOverlay == ToTheme \/ BrokenFilename \/ BrokenControlChar

SpecOverlay == InitOverlay /\ [][NextOverlay]_vars

\* FilesInput::deduce on every command line, variable and standard input.
InitStdin ==
    /\ use_colours = "Never"
    /\ definitions = [ls |-> None, exa |-> None]
    /\ pc = "options"
    /\ isatty = FALSE
    /\ ret = NotRun
    /\ theme = NoTheme
    /\ lookup = NoLookup
    /\ overlaid = NoOverlaid
    /\ stdin \in [is_terminal : BOOLEAN, matches : Matches,
                  var : SeparatorVars]
    /\ files_input = NoFilesInput

Deduce ==
    /\ ~files_input.done
    /\ files_input' = deduce(stdin.matches, stdin.var, stdin.is_terminal)
    /\ UNCHANGED <<use_colours, definitions, pc, isatty, ret, theme, lookup,
                   overlaid, stdin>>

NextStdin == Deduce

SpecStdin == InitStdin /\ [][NextStdin]_vars

\* ------------------------------------------------------------------- claims

Themed == pc = "themed"

\* The colour policy and the terminal let colours through.
ColourOn ==
    use_colours = "Always" \/ (use_colours = "Automatic" /\ isatty)

MaxOf(S) == CHOOSE x \in S : \A y \in S : y <= x

GlobT == <<"*", ".", "t">>
GlobA == <<"a", "*">>
FileAT == File(<<"a", ".", "t">>, "")

\* C1: with colour enabled, the resolver of the Theme is decided by the pair
\* (mappings non-empty, use built-in file types) that parse_color_vars
\* returned: (empty, false) no style for every file; (empty, true) the
\* built-in classifier alone; (non-empty, false) the mappings alone;
\* (non-empty, true) the mappings with the classifier as fallback; and it is
\* one of these four.
C1_ResolverSelection ==
    (Themed /\ ColourOn) =>
        LET nonempty == Len(ret.exts) > 0
            builtin == ret.use_default_filetypes
            r == theme.exts
        IN  /\ ret.ran
            /\ r.kind \in {"NoFileStyle", "FileTypes", "ExtensionMappings", "Pair"}
            /\ (~nonempty /\ ~builtin) =>
                  /\ r.kind = "NoFileStyle"
                  /\ \A f \in Files : get_style(r, f, theme) = NoStyle
            /\ (~nonempty /\ builtin) =>
                  /\ r.kind = "FileTypes"
                  /\ \A f \in Files :
                        get_style(r, f, theme) = FileTypes_get_style(f, theme)
            /\ (nonempty /\ ~builtin) =>
                  /\ r.kind = "ExtensionMappings" /\ r.mappings = ret.exts
                  /\ \A f \in Files :
                        get_style(r, f, theme) =
                            ExtensionMappings_get_style(ret.exts, f, theme)
            /\ (nonempty /\ builtin) =>
                  /\ r.kind = "Pair" /\ r.mappings = ret.exts
                  /\ \A f \in Files :
                        LET e == ExtensionMappings_get_style(ret.exts, f, theme)
                        IN  get_style(r, f, theme) =
                                IF e.some THEN e
                                ELSE FileTypes_get_style(f, theme)

\* Colour enabled, mappings and built-in types both in use, and a file that
\* no mapping matches coloured by its built-in category.
C1_Witness ==
    /\ Themed /\ ColourOn
    /\ ret.exts # <<>> /\ ret.use_default_filetypes
    /\ theme.exts.kind = "Pair"
    /\ lookup.done /\ lookup.found.some
    /\ ~ExtensionMappings_get_style(ret.exts, lookup.file, theme).some

\* C2: with use_colours Never, or Automatic and isatty false, whatever the
\* definition strings hold, to_theme returns the all-plain style table and a
\* resolver that has no style for any file, and parse_color_vars did not
\* run; with Always, or Automatic and isatty true, it ran.
C2_DisabledBypassesParser ==
    Themed =>
        IF use_colours = "Never" \/ (use_colours = "Automatic" /\ ~isatty)
        THEN /\ ~ret.ran
             /\ theme.ui = [s \in Slots |-> DefaultStyle]
             /\ theme.exts.kind = "NoFileStyle"
             /\ \A f \in Files : ~get_style(theme.exts, f, theme).some
             /\ lookup.done => ~lookup.found.some
        ELSE ret.ran

\* Colour off by Automatic on a non-terminal, with a legacy string that
\* assigns a slot and declares a glob matching the file looked up.
C2_Witness ==
    /\ Themed /\ use_colours = "Automatic" /\ ~isatty
    /\ definitions.ls = Some(<<Tok(<<"d", "i">>, <<31>>), Tok(GlobT, <<33>>)>>)
    /\ lookup.done /\ lookup.file = FileAT
    /\ ~lookup.found.some

\* The indices of the entries whose pattern matches the name.
Matching(mappings, name) ==
    {i \in 1..Len(mappings) : matches(mappings[i].pattern, name)}

\* C3: ExtensionMappings::get_style returns the style of the matching entry
\* declared last, and no style exactly when no entry matches the name.
C3_LastMatchWins ==
    (Themed /\ ret.ran) =>
        \A f \in Files :
            LET m == Matching(ret.exts, f.name)
                r == ExtensionMappings_get_style(ret.exts, f, theme)
            IN  /\ (m = {}) <=> ~r.some
                /\ m # {} => r = SomeStyle(ret.exts[MaxOf(m)].style)
                /\ (lookup.done /\ lookup.file = f
                        /\ theme.exts.kind = "ExtensionMappings") =>
                      lookup.found = r

\* A mappings-only Theme in which two entries of different styles match the
\* file looked up, and the lookup gave the later one's style.
C3_Witness ==
    /\ Themed /\ theme.exts.kind = "ExtensionMappings"
    /\ lookup.done
    /\ \E i, j \in Matching(theme.exts.mappings, lookup.file.name) :
          /\ i < j
          /\ theme.exts.mappings[i].style # theme.exts.mappings[j].style
          /\ j = MaxOf(Matching(theme.exts.mappings, lookup.file.name))
          /\ lookup.found = SomeStyle(theme.exts.mappings[j].style)

\* The tokens of the two strings (none for an absent string).
LsTokens == IF definitions.ls.some THEN definitions.ls.str ELSE <<>>
ExaTokens == IF definitions.exa.some THEN definitions.exa.str ELSE <<>>

\* The style a key=value token gives.
ValueStyle(tok) == to_style([key |-> tok[1], value |-> tok[2]])

\* The key of the token is a code of the code sets consulted for its string.
Recognised(tok, which) ==
    \/ LsSlot(tok[1]) # ""
    \/ which = "exa" /\ ExaSlots(tok[1]) # {}

\* The slots the token's key names in its string.
SlotsOf(tok, which) ==
    IF LsSlot(tok[1]) # "" THEN {LsSlot(tok[1])}
    ELSE IF which = "exa" THEN ExaSlots(tok[1])
    ELSE {}

\* The positions of the string that assign slot s.
WriteIdx(str, s, which) ==
    {i \in 1..Len(str) : IsPair(str[i]) /\ s \in SlotsOf(str[i], which)}

\* The slots some pair of either string assigns, and the keys of the pairs.
AssignedSlots ==
    UNION ({SlotsOf(LsTokens[i], "ls") :
               i \in {j \in 1..Len(LsTokens) : IsPair(LsTokens[j])}}
           \cup {SlotsOf(ExaTokens[i], "exa") :
                    i \in {j \in 1..Len(ExaTokens) : IsPair(ExaTokens[j])}})
DeclaredKeys ==
    {LsTokens[i][1] : i \in {j \in 1..Len(LsTokens) : IsPair(LsTokens[j])}}
    \cup {ExaTokens[i][1] :
             i \in {j \in 1..Len(ExaTokens) : IsPair(ExaTokens[j])}}

Red == [DefaultStyle EXCEPT !.foreground = <<"Red">>]
BoldOnBlue ==
    [DefaultStyle EXCEPT !.is_bold = TRUE, !.background = <<"Blue">>]
Green == [DefaultStyle EXCEPT !.foreground = <<"Green">>]
Yellow == [DefaultStyle EXCEPT !.foreground = <<"Yellow">>]

\* C4: when the legacy string and the extended string both assign the same
\* legacy code, the slot ends with the style the extended string gave it
\* (its last assignment there), whatever the legacy string assigned.
C4_ExtendedOverridesLegacy ==
    (Themed /\ ret.ran) =>
        \A s \in LegacySlots \cap AssignedSlots :
            LET li == WriteIdx(LsTokens, s, "ls")
                ei == WriteIdx(ExaTokens, s, "exa")
            IN  (li # {} /\ ei # {}) =>
                    theme.ui[s] = ValueStyle(ExaTokens[MaxOf(ei)])

\* fi assigned red by the legacy string and bold on blue by the extended
\* one: the normal-file slot is bold on blue.
C4_Witness ==
    /\ Themed /\ ret.ran
    /\ definitions.ls = Some(<<Tok(<<"f", "i">>, <<31>>)>>)
    /\ definitions.exa = Some(<<Tok(<<"f", "i">>, <<1, 44>>)>>)
    /\ theme.ui["filekinds.normal"] = BoldOnBlue

LsGlobTok(tok) ==
    IsPair(tok) /\ ~Recognised(tok, "ls") /\ GlobCompiles(tok[1])
ExaGlobTok(tok) ==
    IsPair(tok) /\ ~Recognised(tok, "exa") /\ GlobCompiles(tok[1])

EntriesOf(toks) ==
    [i \in 1..Len(toks) |->
        [pattern |-> toks[i][1], style |-> ValueStyle(toks[i])]]

\* C6: the mapping parse_color_vars returns holds one entry per pair whose
\* key is no code and compiles as a glob: those of the legacy string in
\* order, then those of the extended string in order, none removed,
\* reordered or merged.
C6_MappingsInDeclarationOrder ==
    (Themed /\ ret.ran) =>
        ret.exts = EntriesOf(SelectSeq(LsTokens, LsGlobTok))
                   \o EntriesOf(SelectSeq(ExaTokens, ExaGlobTok))

\* The same pattern declared in both strings with another between: three
\* entries, the first and the last equal.
C6_Witness ==
    /\ Themed /\ ret.ran
    /\ definitions.ls.some /\ Len(definitions.ls.str) = 2
    /\ definitions.exa = Some(<<Tok(GlobT, <<33>>)>>)
    /\ Len(ret.exts) = 3
    /\ ret.exts[1] = ret.exts[3]
    /\ ret.exts[1] # ret.exts[2]

\* The captured variables before any pair, after the first i tokens of the
\* legacy string, and after it and the first i tokens of the extended one.
St0 == [ui |-> default_theme, exts |-> <<>>]
LsAt(i) == EachLsPair(each_pair(SubSeq(LsTokens, 1, i)), St0)
ExaFrom(st, i) == EachExaPair(each_pair(SubSeq(ExaTokens, 1, i)), st)
ExaAt(i) == ExaFrom(LsAt(Len(LsTokens)), i)

\* The captured variables after one more token: each_pair calls the closure
\* on a key=value token and skips any other.
LsPairOrSkip(st, tok) == EachLsPair(each_pair(<<tok>>), st)
ExaPairOrSkip(st, tok) == EachExaPair(each_pair(<<tok>>), st)

\* What one token did: b before it, a after it.
CodeOrGlob(tok, which, b, a) ==
    IsPair(tok) =>
        LET before == b
            after == a
            style == ValueStyle(tok)
        IN  IF Recognised(tok, which)
            THEN /\ after.exts = before.exts
                 /\ \A s \in Slots :
                       after.ui[s] = IF s \in SlotsOf(tok, which) THEN style
                                     ELSE before.ui[s]
            ELSE /\ after.ui = before.ui
                 /\ after.exts # before.exts =>
                       after.exts = Append(before.exts,
                                           [pattern |-> tok[1], style |-> style])

\* C7: in both strings a key is tried as a code first: a pair whose key is a
\* code of the sets consulted for its string writes the code's slots and
\* adds no mapping entry, and a pair that adds a mapping entry leaves the
\* whole style table as it was.
C7_CodeBeforeGlob ==
    (Themed /\ ret.ran) =>
        /\ \A i \in 1..Len(LsTokens) :
              LET b == LsAt(i - 1) IN
              CodeOrGlob(LsTokens[i], "ls", b, LsPairOrSkip(b, LsTokens[i]))
        /\ LET st == LsAt(Len(LsTokens)) IN
           /\ \A i \in 1..Len(ExaTokens) :
                 LET b == ExaFrom(st, i - 1) IN
                 CodeOrGlob(ExaTokens[i], "exa", b,
                            ExaPairOrSkip(b, ExaTokens[i]))
           /\ ExaFrom(st, Len(ExaTokens)) =
                 [ui |-> theme.ui, exts |-> ret.exts]

\* di then a glob in the legacy string: the directory slot alone is
\* written, and the glob alone is in the mapping.
C7_Witness ==
    /\ Themed /\ ret.ran
    /\ definitions.ls = Some(<<Tok(<<"d", "i">>, <<31>>), Tok(GlobT, <<33>>)>>)
    /\ definitions.exa = None
    /\ theme.ui = [default_theme EXCEPT !["filekinds.directory"] = Red]
    /\ ret.exts = <<[pattern |-> GlobT, style |-> Yellow]>>

KeyIdx(str, k) == {i \in 1..Len(str) : IsPair(str[i]) /\ str[i][1] = k}

\* C8: a code of the extended set only, where a string declares it, is a glob
\* in the legacy string (one mapping entry per pair, no slot written) and a
\* code in the extended string (its slots written, no mapping entry).
C8_ExtendedCodeIsGlobInLegacy ==
    (Themed /\ ret.ran) =>
        \A k \in ExtendedCodes \cap DeclaredKeys :
            /\ Cardinality({i \in 1..Len(ret.exts) : ret.exts[i].pattern = k})
                  = Cardinality(KeyIdx(LsTokens, k))
            /\ \A i \in KeyIdx(LsTokens, k) :
                  /\ LsAt(i).ui = LsAt(i - 1).ui
                  /\ LsAt(i).exts =
                        Append(LsAt(i - 1).exts,
                               [pattern |-> k, style |-> ValueStyle(LsTokens[i])])
            /\ \A s \in ExaSlots(k) :
                  LET ei == WriteIdx(ExaTokens, s, "exa") IN
                  theme.ui[s] = IF ei = {} THEN default_theme[s]
                                ELSE ValueStyle(ExaTokens[MaxOf(ei)])
            /\ \A i \in KeyIdx(ExaTokens, k) :
                  ExaAt(i).exts = ExaAt(i - 1).exts

\* uu in the legacy string alone: the table is the default one, the mapping
\* holds the pattern uu, and the file named uu is painted with its style.
C8_Witness ==
    /\ Themed /\ ret.ran
    /\ definitions.ls = Some(<<Tok(<<"u", "u">>, <<32>>)>>)
    /\ definitions.exa = None
    /\ theme.ui = default_theme
    /\ ret.exts = <<[pattern |-> <<"u", "u">>, style |-> Green]>>
    /\ lookup.done /\ lookup.file.name = <<"u", "u">>
    /\ lookup.found = SomeStyle(Green)

\* The definitions with the first token of the extended string removed.
WithoutFirstExa ==
    [ls |-> definitions.ls, exa |-> Some(Tail(definitions.exa.str))]

\* C9: the flag parse_color_vars returns is false exactly when the extended
\* string is present and its first token is the bare word reset (the string
\* is "reset" or begins with "reset:"); the tokens after it are processed as
\* they are without it.
C9_ResetOnlyFirst ==
    (Themed /\ ret.ran) =>
        /\ ~ret.use_default_filetypes <=>
              /\ definitions.exa.some
              /\ Head(definitions.exa.str) = << <<"r", "e", "s", "e", "t">> >>
        /\ ~ret.use_default_filetypes =>
              LET r == parse_color_vars(WithoutFirstExa, default_theme) IN
              theme.ui = r.ui /\ ret.exts = r.exts

\* reset, then a code and a glob: the flag is false, the slot written, the
\* glob in the mapping, and the resolver the mappings alone.
C9_Witness ==
    /\ Themed /\ ret.ran
    /\ definitions.exa = Some(<<ResetToken, Tok(<<"d", "i">>, <<31>>),
                                Tok(GlobT, <<33>>)>>)
    /\ ~ret.use_default_filetypes
    /\ theme.ui["filekinds.directory"] = Red
    /\ ret.exts = <<[pattern |-> GlobT, style |-> Yellow]>>
    /\ theme.exts.kind = "ExtensionMappings"

\* A key=value token whose key is neither a code for its string nor a glob.
LsBadTok(tok) ==
    IsPair(tok) /\ ~Recognised(tok, "ls") /\ ~GlobCompiles(tok[1])
ExaBadTok(tok) ==
    IsPair(tok) /\ ~Recognised(tok, "exa") /\ ~GlobCompiles(tok[1])
LsGoodTok(tok) == ~LsBadTok(tok)
ExaGoodTok(tok) == ~ExaBadTok(tok)

\* The definitions with those tokens removed.
WithoutBad ==
    [ls |-> IF definitions.ls.some
               THEN Some(SelectSeq(definitions.ls.str, LsGoodTok))
               ELSE None,
     exa |-> IF definitions.exa.some
                THEN Some(SelectSeq(definitions.exa.str, ExaGoodTok))
                ELSE None]

\* C10: a pair whose key is neither a code nor a glob that compiles adds no
\* entry and writes no slot, and the style table and the mapping end as they
\* do for the same strings without such pairs.
C10_InvalidGlobDropped ==
    (Themed /\ ret.ran) =>
        /\ \A i \in 1..Len(LsTokens) :
              LsBadTok(LsTokens[i]) => LsAt(i) = LsAt(i - 1)
        /\ \A i \in 1..Len(ExaTokens) :
              ExaBadTok(ExaTokens[i]) => ExaAt(i) = ExaAt(i - 1)
        /\ LET r == parse_color_vars(WithoutBad, default_theme) IN
           theme.ui = r.ui /\ ret.exts = r.exts

\* A key that is no glob between a code and a glob of the legacy string: the
\* code's slot is written and the glob is in the mapping.
C10_Witness ==
    /\ Themed /\ ret.ran
    /\ definitions.ls = Some(<<Tok(<<"d", "i">>, <<31>>), Tok(<<"[">>, <<35>>),
                               Tok(GlobT, <<33>>)>>)
    /\ theme.ui["filekinds.directory"] = Red
    /\ ret.exts = <<[pattern |-> GlobT, style |-> Yellow]>>

\* The styles the overlay inputs give their three slots.
OverlayBase == ValueStyle(ExaTokens[1])
OverlayOverlay == ValueStyle(ExaTokens[3])

\* C11: apply_overlay(base, overlay) has the overlay's foreground
\* (background) when the overlay has one and the base's otherwise, and each
\* of the eight attributes exactly when the base or the overlay has it.
C11_OverlayRule ==
    overlaid.done =>
        LET b == overlaid.base
            o == overlaid.overlay
            r == overlaid.style
        IN  /\ b = OverlayBase /\ o = OverlayOverlay
            /\ r.foreground = IF o.foreground = <<"None">> THEN b.foreground
                              ELSE o.foreground
            /\ r.background = IF o.background = <<"None">> THEN b.background
                              ELSE o.background
            /\ \A a \in Attributes : r[a] <=> (b[a] \/ o[a])

\* A bold red base under an underlined blue overlay: bold, underlined, blue.
C11_Witness ==
    /\ overlaid.done /\ overlaid.of = "broken_filename"
    /\ overlaid.base = [DefaultStyle EXCEPT !.foreground = <<"Red">>,
                                            !.is_bold = TRUE]
    /\ overlaid.overlay = [DefaultStyle EXCEPT !.foreground = <<"Blue">>,
                                               !.is_underline = TRUE]
    /\ overlaid.style = [DefaultStyle EXCEPT !.foreground = <<"Blue">>,
                                             !.is_bold = TRUE,
                                             !.is_underline = TRUE]

\* C12: applying the same overlay to the result again changes nothing, and
\* every attribute the base has the result has.
C12_OverlayIdempotentMonotonic ==
    overlaid.done =>
        /\ apply_overlay(overlaid.style, overlaid.overlay) = overlaid.style
        /\ \A a \in Attributes : overlaid.base[a] => overlaid.style[a]

\* A bold underlined base under an underlining overlay: the result is the
\* base.
C12_Witness ==
    /\ overlaid.done
    /\ overlaid.base.is_underline /\ overlaid.base.is_bold
    /\ overlaid.overlay.is_underline /\ ~overlaid.overlay.is_bold
    /\ overlaid.style = overlaid.base

\* The slot each legacy code stands for.
LegacySlotOf(k) ==
    CASE k = <<"d", "i">> -> "filekinds.directory"
      [] k = <<"e", "x">> -> "filekinds.executable"
      [] k = <<"f", "i">> -> "filekinds.normal"
      [] k = <<"p", "i">> -> "filekinds.pipe"
      [] k = <<"s", "o">> -> "filekinds.socket"
      [] k = <<"b", "d">> -> "filekinds.block_device"
      [] k = <<"c", "d">> -> "filekinds.char_device"
      [] k = <<"l", "n">> -> "filekinds.symlink"
      [] k = <<"o", "r">> -> "broken_symlink"

\* The pair of the two strings processed last.
LastPair ==
    LET e == {i \in 1..Len(ExaTokens) : IsPair(ExaTokens[i])}
        l == {i \in 1..Len(LsTokens) : IsPair(LsTokens[i])}
    IN  IF e # {} THEN ExaTokens[MaxOf(e)] ELSE LsTokens[MaxOf(l)]

\* C13: when the pairs of the two strings all have one legacy code for key,
\* the parsed style table is the prior table but for the slot of that code,
\* which holds the style assigned, and the mapping sequence is empty.
C13_LegacyCodeSetsOnlyItsSlot ==
    (Themed /\ ret.ran /\ Cardinality(DeclaredKeys) = 1
        /\ DeclaredKeys \subseteq LegacyCodes) =>
        LET k == CHOOSE x \in DeclaredKeys : TRUE IN
        /\ theme.ui = [default_theme EXCEPT
                          ![LegacySlotOf(k)] = ValueStyle(LastPair)]
        /\ ret.exts = <<>>

\* LS_COLORS is or=1;44 alone: the broken-symlink slot is bold on blue, the
\* directory slot and the others are as before, and there is no mapping.
C13_Witness ==
    /\ Themed /\ ret.ran
    /\ definitions = [ls |-> Some(<<Tok(<<"o", "r">>, <<1, 44>>)>>),
                      exa |-> None]
    /\ theme.ui["broken_symlink"] = BoldOnBlue
    /\ default_theme["broken_symlink"] # BoldOnBlue
    /\ theme.ui["filekinds.directory"] = default_theme["filekinds.directory"]
    /\ ret.exts = <<>>

\* The answer of the mappings alone: the style of the last matching entry.
MappingAnswer(f) ==
    LET m == Matching(theme.exts.mappings, f.name) IN
    IF m = {} THEN NoStyle
    ELSE SomeStyle(theme.exts.mappings[MaxOf(m)].style)

\* C14: the combined resolver gives the mappings' answer whenever the
\* mappings match, the classifier's answer only when they do not, never a
\* third style, and no style exactly when neither has one.
C14_PairFirstMatchWithFallback ==
    (Themed /\ theme.exts.kind = "Pair") =>
        \A f \in Files :
            LET a == MappingAnswer(f)
                b == FileTypes_get_style(f, theme)
                r == get_style(theme.exts, f, theme)
            IN  /\ a.some => r = a
                /\ ~a.some => r = b
                /\ r \in {a, b}
                /\ ~r.some <=> (~a.some /\ ~b.some)
                /\ (lookup.done /\ lookup.file = f) => lookup.found = r

\* A file that a mapping and the classifier both style, differently: the
\* lookup gave the mapping's style.
C14_Witness ==
    /\ Themed /\ theme.exts.kind = "Pair" /\ lookup.done
    /\ MappingAnswer(lookup.file).some
    /\ FileTypes_get_style(lookup.file, theme).some
    /\ MappingAnswer(lookup.file) # FileTypes_get_style(lookup.file, theme)
    /\ lookup.found = MappingAnswer(lookup.file)

\* The tokens of the two strings in the order they are processed, each with
\* the string it is of.
AllTokens ==
    [i \in 1..(Len(LsTokens) + Len(ExaTokens)) |->
        IF i <= Len(LsTokens) THEN [tok |-> LsTokens[i], which |-> "ls"]
        ELSE [tok |-> ExaTokens[i - Len(LsTokens)], which |-> "exa"]]

\* The positions among the first j that assign slot s.
WritersUpTo(all, s, j) ==
    {i \in 1..j : IsPair(all[i].tok) /\ s \in SlotsOf(all[i].tok, all[i].which)}

\* With st the captured variables after the first j tokens: each of the
\* slots holds there, and after every later token, the style of the value
\* assigned to it last, or its prior style if none was; and the table after
\* the last token is the Theme's.
RECURSIVE ReplacedFrom(_, _, _, _)
ReplacedFrom(all, slots, j, st) ==
    /\ \A s \in slots :
          LET w == WritersUpTo(all, s, j) IN
          st.ui[s] = IF w = {} THEN default_theme[s]
                     ELSE ValueStyle(all[MaxOf(w)].tok)
    /\ IF j = Len(all) THEN st.ui = theme.ui
       ELSE LET n == all[j + 1]
                after == IF n.which = "ls" THEN LsPairOrSkip(st, n.tok)
                         ELSE ExaPairOrSkip(st, n.tok)
            IN  ReplacedFrom(all, slots, j + 1, after)

\* C15: at every point of the parse, a slot assigned so far holds the style
\* of the value assigned to it last, built from that value alone, and a slot
\* not assigned so far holds its prior style.
C15_OverwriteReplacesStyle ==
    (Themed /\ ret.ran) =>
        LET all == AllTokens
            slots == AssignedSlots
        IN  ReplacedFrom(all, slots, 0, St0)

\* LS_COLORS is di=1;44:di=31: the directory slot is red on no background
\* and not bold.
C15_Witness ==
    /\ Themed /\ ret.ran
    /\ definitions = [ls |-> Some(<<Tok(<<"d", "i">>, <<1, 44>>),
                                    Tok(<<"d", "i">>, <<31>>)>>),
                      exa |-> None]
    /\ LsAt(1).ui["filekinds.directory"] = BoldOnBlue
    /\ theme.ui["filekinds.directory"] = Red
    /\ ~theme.ui["filekinds.directory"].is_bold
    /\ theme.ui["filekinds.directory"].background = <<"None">>

NormalSlot ==
    IF ~ColourOn THEN DefaultStyle
    ELSE LET all == AllTokens
             w == WritersUpTo(all, "filekinds.normal", Len(all))
         IN  IF w = {} THEN default_theme["filekinds.normal"]
             ELSE ValueStyle(all[MaxOf(w)].tok)

\* C17: colour_file returns the resolver's style when the resolver has one
\* for the file, and otherwise the style of the Theme's normal-file slot.
C17_ColourFileFallsBackToNormal ==
    lookup.done =>
        /\ lookup.found = get_style(theme.exts, lookup.file, theme)
        /\ lookup.found.some => lookup.style = lookup.found.style
        /\ ~lookup.found.some =>
              /\ lookup.style = theme.ui["filekinds.normal"]
              /\ lookup.style = NormalSlot

\* LS_COLORS is fi=31 alone and the resolver has no style for the file: the
\* file is red.
C17_Witness ==
    /\ lookup.done /\ ColourOn
    /\ definitions = [ls |-> Some(<<Tok(<<"f", "i">>, <<31>>)>>), exa |-> None]
    /\ ~lookup.found.some
    /\ default_theme["filekinds.normal"] # Red
    /\ lookup.style = Red

\* The flag lookup of the command line read: the number of times --stdin
\* was given, and whether the lookup is an error.
StdinGiven ==
    Cardinality({i \in 1..Len(stdin.matches.flags) :
                    stdin.matches.flags[i] = "stdin"})
LookupFails == stdin.matches.strict /\ StdinGiven >= 2

\* C18: deduce returns Stdin exactly when standard input is no terminal and
\* the flag lookup says the flag is present, with the variable's value for
\* separator, or "\n" when it is unset; on a terminal it returns Args with
\* no flag lookup made, even where the lookup would fail; off a terminal a
\* failing lookup is returned as the error; every other case is Args, and
\* the last else is never taken.
C18_DeduceStdin ==
    files_input.done =>
        /\ files_input.kind \in {"Stdin", "Args", "Err"}
        /\ files_input.kind = "Stdin" <=>
              (~stdin.is_terminal /\ StdinGiven >= 1 /\ ~LookupFails)
        /\ files_input.kind = "Stdin" =>
              files_input.separator =
                  IF stdin.var = None THEN "\n" ELSE stdin.var.str
        /\ stdin.is_terminal =>
              (files_input.kind = "Args" /\ files_input.calls = 0)
        /\ files_input.kind = "Err" <=> (~stdin.is_terminal /\ LookupFails)
        /\ files_input.branch # "else"

\* On a terminal with --stdin given twice in strict mode, deduce returned
\* Args.
C18_Witness ==
    /\ files_input.done /\ stdin.is_terminal /\ LookupFails
    /\ files_input.kind = "Args"

=============================================================================
